---- MODULE Spec2Model ----
(***************************************************************************)
(* Model of the municipal-employment-data batch scripts:                   *)
(*   migrate_schema.py, apply_url_check_summary.py and the rediscovery     *)
(*   engine of rediscover_employment_links.py.                             *)
(*                                                                         *)
(* A JSON value is a record tagged by k: "absent" (the key is not in the   *)
(* dict), "null", "num", "bool", "str", "dict".  A string is a sequence of *)
(* tokens ("http", "://", "a.gov", "/", "354", "/", "jobs", "ws", ...), so *)
(* that strip(), urlparse(), the CivicPlus regex and the homepage format   *)
(* are computed on the text and not assumed.                               *)
(***************************************************************************)
EXTENDS Integers, Sequences, FiniteSets, TLC

VARIABLES disk, data, pc, script, argc, i, changed, updates, exitCode, writes, runs,
          nrows, csv, replay,
          rrec, rpc, anchor, ridx, probed, lastResp, crawled, selected, outcome

vars == <<disk, data, pc, script, argc, i, changed, updates, exitCode, writes, runs,
          nrows, csv, replay,
          rrec, rpc, anchor, ridx, probed, lastResp, crawled, selected, outcome>>

pipeVars == <<disk, data, pc, script, argc, i, changed, updates, exitCode, writes, runs,
              nrows, csv, replay>>

redVars == <<rrec, rpc, anchor, ridx, probed, lastResp, crawled, selected, outcome>>

(***************************************************************************)
(* Bounds of the model.                                                    *)
(***************************************************************************)
MaxRuns == 2

MaxRows == 2

(***************************************************************************)
(* JSON values.                                                            *)
(***************************************************************************)
Absent == [k |-> "absent"]

Null == [k |-> "null"]

Num(n) == [k |-> "num", n |-> n]

Bool(b) == [k |-> "bool", b |-> b]

Str(s) == [k |-> "str", s |-> s]

IsStr(v) == v.k = "str"

\* dict.get(key): a missing key and a null both read as None.
Get(rec, key) == IF rec[key].k = "absent" THEN Null ELSE rec[key]

\* "key" in dict
HasKey(rec, key) == rec[key].k # "absent"

(***************************************************************************)
(* Text: strip(), lower(), urlparse().                                     *)
(***************************************************************************)
RECURSIVE LStrip(_)
LStrip(s) == IF s # <<>> /\ Head(s) = "ws" THEN LStrip(Tail(s)) ELSE s

RECURSIVE RStrip(_)
RStrip(s) == IF s # <<>> /\ s[Len(s)] = "ws" THEN RStrip(SubSeq(s, 1, Len(s) - 1)) ELSE s

\* str.strip()
Strip(s) == RStrip(LStrip(s))

\* str.lower() of one token
Lower(t) == CASE t = "HTTP" -> "http"
              [] t = "TRUE" -> "true"
              [] t = "True" -> "true"
              [] OTHER -> t

SchemeTokens == {"http", "https", "HTTP"}

\* The tokens that end the netloc and the path.
PathEnd == {"?q", "#f"}

RECURSIVE TakeUntil(_, _)
TakeUntil(s, stop) ==
    IF s = <<>> \/ Head(s) \in stop THEN <<>> ELSE <<Head(s)>> \o TakeUntil(Tail(s), stop)

RECURSIVE DropUntil(_, _)
DropUntil(s, stop) ==
    IF s = <<>> \/ Head(s) \in stop THEN s ELSE DropUntil(Tail(s), stop)

\* urllib.parse.urlparse: scheme (lower-cased), netloc, path; leading blanks
\* are dropped; raises ValueError on an unbalanced bracket in the netloc
\* ("Invalid IPv6 URL").
urlparse(url) ==
    LET s == LStrip(url)
    IN IF Len(s) >= 2 /\ s[1] \in SchemeTokens /\ s[2] = "://"
       THEN LET rest == SubSeq(s, 3, Len(s))
                netloc == TakeUntil(rest, {"/"} \cup PathEnd)
                after == DropUntil(rest, {"/"} \cup PathEnd)
            IN [scheme |-> <<Lower(s[1])>>,
                netloc |-> netloc,
                path |-> TakeUntil(after, PathEnd),
                raises |-> \E n \in 1..Len(netloc) : netloc[n] = "[bad"]
       ELSE [scheme |-> <<>>,
             netloc |-> <<>>,
             path |-> TakeUntil(s, PathEnd),
             raises |-> FALSE]

\* f"{u.scheme}://{u.netloc}/"
HomepageFormat(u) == u.scheme \o <<"://">> \o u.netloc \o <<"/">>

(***************************************************************************)
(* migrate_schema.py                                                       *)
(***************************************************************************)
\* homepage_from_url: None unless a non-blank str with scheme and netloc; the
\* ValueError of urlparse is caught.
homepage_from_url(v) ==
    IF ~IsStr(v) \/ Strip(v.s) = <<>> THEN Null
    ELSE LET u == urlparse(Strip(v.s))
         IN IF u.raises THEN Null
            ELSE IF u.scheme = <<>> \/ u.netloc = <<>> THEN Null
            ELSE Str(HomepageFormat(u))

\* Python truthiness of the values the scripts test with "if x" / "x or y".
Truthy(v) == CASE v.k = "null" -> FALSE
               [] v.k = "absent" -> FALSE
               [] v.k = "str" -> v.s # <<>>
               [] v.k = "num" -> v.n # 0
               [] v.k = "bool" -> v.b
               [] OTHER -> TRUE

Or(a, b) == IF Truthy(a) THEN a ELSE b

\* The home computed for one record (lines 53-60).
MigrateHome(rec) ==
    LET town_site == Get(rec, "Town Website")
        home == IF IsStr(town_site) THEN homepage_from_url(town_site) ELSE Null
    IN IF ~Truthy(home)
       THEN Or(homepage_from_url(Get(rec, "Employment Page URL")),
               homepage_from_url(Get(rec, "Application Form URL")))
       ELSE home

\* if home and rec.get("Town Website") != home: rec["Town Website"] = home
SetTownWebsite(rec) ==
    LET home == MigrateHome(rec)
    IN IF Truthy(home) /\ Get(rec, "Town Website") # home
       THEN [rec EXCEPT !["Town Website"] = home]
       ELSE rec

OriginalKey(field) == field \o " (original)"

\* Mutant: the "not in rec" test is left out.
FreezeGuardNoKeyTest(rec, field) == IsStr(Get(rec, field))

\* Freeze originals (immutable): only when the key is not yet in the record.
FreezeGuard(rec, field) ==
    /\ ~HasKey(rec, OriginalKey(field))
    /\ IsStr(Get(rec, field))

\* Mutant: the URL is moved (rec.pop) into the original key, not copied.
FreezeMove(rec, field) ==
    IF FreezeGuard(rec, field)
    THEN [rec EXCEPT ![OriginalKey(field)] = rec[field], ![field] = Absent]
    ELSE rec

Freeze(rec, field) ==
    IF FreezeGuard(rec, field)
    THEN [rec EXCEPT ![OriginalKey(field)] = rec[field]]
    ELSE rec

\* The body of the for loop for one entry of data (lines 48-73).
MigrateRec(e) ==
    IF e.k # "dict" THEN e
    ELSE [e EXCEPT !.f = Freeze(Freeze(SetTownWebsite(@), "Employment Page URL"),
                                "Application Form URL")]

\* The number of "changed += 1" one entry causes.
MigrateChanged(e) ==
    IF e.k # "dict" THEN 0
    ELSE LET a == SetTownWebsite(e.f)
         IN (IF a # e.f THEN 1 ELSE 0)
            + (IF FreezeGuard(a, "Employment Page URL") THEN 1 ELSE 0)
            + (IF FreezeGuard(a, "Application Form URL") THEN 1 ELSE 0)

(***************************************************************************)
(* apply_url_check_summary.py                                              *)
(***************************************************************************)
UPDATE_CANONICAL_ON_REDIRECT == TRUE

UPDATE_CANONICAL_ON_CIVICPLUS_PAGEID == TRUE

DO_NOT_REWRITE_STATUSES == {401, 403}

\* \d{2,6}: the digit tokens of two to six digits ("7" has one digit).
PageIdTokens == {"354", "12"}

\* CIVICPLUS_PAGEID_RE = ^/(\d{2,6})/[^/]+ matched at the start of the path.
CivicPlusMatch(p) ==
    /\ Len(p) >= 4
    /\ p[1] = "/"
    /\ p[2] \in PageIdTokens
    /\ p[3] = "/"
    /\ p[4] # "/"

\* civicplus_pageid_path(u) is not None; the url is parsed as given (not
\* stripped) and an exception of urlparse gives None.
civicplus_pageid_path(s) ==
    LET u == urlparse(s)
    IN IF u.raises THEN FALSE ELSE CivicPlusMatch(u.path)

\* homepage(url) of apply_url_check_summary: as homepage_from_url, but the
\* ValueError of urlparse is not caught (see HomepageRaises).
homepage(v) ==
    IF ~IsStr(v) \/ Strip(v.s) = <<>> THEN Null
    ELSE LET u == urlparse(Strip(v.s))
         IN IF u.scheme = <<>> \/ u.netloc = <<>> THEN Null
            ELSE Str(HomepageFormat(u))

HomepageRaises(v) == IsStr(v) /\ Strip(v.s) # <<>> /\ urlparse(Strip(v.s)).raises

field_to_prefix(field) ==
    CASE field = <<"Employment Page URL">> -> <<"employment">>
      [] field = <<"Application Form URL">> -> <<"application">>
      [] OTHER -> <<>>

\* The integer a token of digits stands for.
TokInt(t) == CASE t = "200" -> 200
               [] t = "301" -> 301
               [] t = "399" -> 399
               [] t = "400" -> 400
               [] t = "401" -> 401
               [] t = "403" -> 403
               [] t = "404" -> 404
               [] t = "500" -> 500
               [] t = "-1" -> 0 - 1
               [] OTHER -> 0

IntTokens == {"200", "301", "399", "400", "401", "403", "404", "500", "-1"}

FracTokens == {".9", ".0"}

\* int(float(status_str)) if status_str else None, None on an exception.
\* float() accepts surrounding blanks and a fraction, int() truncates.
ParseStatus(status_str) ==
    IF status_str = <<>> THEN Null
    ELSE IF Len(status_str) = 1 /\ status_str[1] \in IntTokens
         THEN Num(TokInt(status_str[1]))
    ELSE IF Len(status_str) = 2 /\ status_str[1] \in IntTokens /\ status_str[2] \in FracTokens
         THEN Num(TokInt(status_str[1]))
    ELSE Null

\* (row.get(col) or "").strip() or None
StripOrNone(s) == IF Strip(s) = <<>> THEN Null ELSE Str(Strip(s))

\* (row.get("Soft404") or "").strip().lower() == "true"
ParseSoft404(s) == Strip(s) # <<>> /\ Len(Strip(s)) = 1 /\ Lower(Strip(s)[1]) = "true"

\* parse_iso_any: the CSV's timestamp, else datetime.now().isoformat()
parse_iso_any(s) == IF Strip(s) # <<>> THEN Str(Strip(s)) ELSE Str(<<"now">>)

MetaKey(prefix, suffix) == prefix[1] \o suffix

\* Stamp metadata (lines 123-127).
Stamp(rec, prefix, row) ==
    [rec EXCEPT ![MetaKey(prefix, "_url_status_code")] = ParseStatus(Strip(row.Status)),
                ![MetaKey(prefix, "_url_final")] = StripOrNone(row.FinalURL),
                ![MetaKey(prefix, "_url_last_checked_at")] = parse_iso_any(row.CheckedAt),
                ![MetaKey(prefix, "_url_soft404")] = Bool(ParseSoft404(row.Soft404)),
                ![MetaKey(prefix, "_url_error")] = StripOrNone(row.Error)]

\* Ensure Town Website homepage (lines 130-136).
ApplyTownWebsite(rec, field) ==
    IF IsStr(Get(rec, "Town Website"))
    THEN [rec EXCEPT !["Town Website"] = Or(homepage(rec["Town Website"]), rec["Town Website"])]
    ELSE LET cur == Get(rec, field)
         IN IF IsStr(cur)
            THEN [rec EXCEPT !["Town Website"] = Or(homepage(cur), Get(rec, "Town Website"))]
            ELSE rec

\* Whether the homepage() call of lines 130-136 raises.
TownWebsiteRaises(rec, field) ==
    IF IsStr(Get(rec, "Town Website"))
    THEN HomepageRaises(rec["Town Website"])
    ELSE HomepageRaises(Get(rec, field))

\* Mutant: the confidence is not set with the rewrite.
RewriteToNoConfidence(rec, field, prefix, final_url, reason) ==
    [rec EXCEPT ![field] = final_url,
                ![prefix[1] \o "_url_change_reason"] = Str(<<reason>>)]

\* rec[field] = final_url with its change reason and confidence.
RewriteTo(rec, field, prefix, final_url, reason) ==
    [rec EXCEPT ![field] = final_url,
                ![MetaKey(prefix, "_url_change_reason")] = Str(<<reason>>),
                ![MetaKey(prefix, "_url_confidence")] = Num(95)]

\* Mutant: the soft-404 branch is missing.
RewriteGuardNoSoft404(cur_url, final_url, status, soft404) ==
    /\ IsStr(cur_url)
    /\ Truthy(final_url)
    /\ status # Null
    /\ status.n \notin DO_NOT_REWRITE_STATUSES

\* The outer guard of the rewrite (lines 140-145).
RewriteGuard(cur_url, final_url, status, soft404) ==
    /\ IsStr(cur_url)
    /\ Truthy(final_url)
    /\ status # Null
    /\ status.n \notin DO_NOT_REWRITE_STATUSES
    /\ ~soft404

\* 1) Redirect/Final URL rewrite (line 147).
RedirectRule(cur_url, final_url, status) ==
    UPDATE_CANONICAL_ON_REDIRECT /\ status.n < 400 /\ final_url # cur_url

\* 2) CivicPlus page-id canonicalization (lines 154-157).
CivicPlusRule(cur_url, final_url, status) ==
    /\ UPDATE_CANONICAL_ON_CIVICPLUS_PAGEID
    /\ status.n < 400
    /\ Truthy(final_url)
    /\ civicplus_pageid_path(final_url.s)
    /\ ~civicplus_pageid_path(cur_url.s)

\* Optionally rewrite canonical URLs on safe conditions (lines 139-161).
Rewrite(rec, key, prefix, final_url, status, soft404) ==
    LET cur_url == Get(rec, key)
    IN IF ~RewriteGuard(cur_url, final_url, status, soft404) THEN rec
       ELSE LET r1 == IF RedirectRule(cur_url, final_url, status)
                      THEN RewriteTo(rec, key, prefix, final_url, "redirect_canonicalized")
                      ELSE rec
            IN IF CivicPlusRule(cur_url, final_url, status)
               THEN RewriteTo(r1, key, prefix, final_url, "civicplus_pageid_canonicalized")
               ELSE r1

\* The number of "updates += 1" the row executes.
RewriteUpdates(rec, key, final_url, status, soft404) ==
    LET cur_url == Get(rec, key)
    IN IF ~RewriteGuard(cur_url, final_url, status, soft404) THEN 0
       ELSE (IF RedirectRule(cur_url, final_url, status) THEN 1 ELSE 0)
            + (IF CivicPlusRule(cur_url, final_url, status) THEN 1 ELSE 0)

\* by_town: the index of the record a town name is mapped to (the last dict
\* with that Town string wins), 0 when there is none.
ByTown(d, town) ==
    LET hits == {n \in 1..Len(d) : d[n].k = "dict" /\ d[n].f["Town"] = Str(town)}
    IN IF hits = {} THEN 0 ELSE CHOOSE n \in hits : \A m \in hits : m <= n

\* The record a row is applied to: 0 when the row is skipped (lines 102-109).
RowTarget(d, row) ==
    LET town == Strip(row.Town)
        prefix == field_to_prefix(Strip(row.Field))
    IN IF town = <<>> \/ prefix = <<>> THEN 0 ELSE ByTown(d, town)

\* The body of the for loop for one row, on the record it targets.
ApplyRec(rec, row) ==
    LET field == Strip(row.Field)
        prefix == field_to_prefix(field)
        stamped == ApplyTownWebsite(Stamp(rec, prefix, row), field[1])
    IN Rewrite(stamped, field[1], prefix, StripOrNone(row.FinalURL),
               ParseStatus(Strip(row.Status)), ParseSoft404(row.Soft404))

ApplyUpdates(rec, row) ==
    LET field == Strip(row.Field)
    IN RewriteUpdates(rec, field[1], StripOrNone(row.FinalURL),
                      ParseStatus(Strip(row.Status)), ParseSoft404(row.Soft404))

(***************************************************************************)
(* Inputs: keys, URLs, records, datasets and CSV rows.                     *)
(***************************************************************************)
Prefixes == {"employment", "application"}

MetaSuffixes == {"_url_status_code", "_url_final", "_url_last_checked_at", "_url_soft404",
                 "_url_error", "_url_change_reason", "_url_confidence"}

UrlFields == {"Employment Page URL", "Application Form URL"}

Keys == {"Town", "Town Website", "Notes"} \cup UrlFields
        \cup {OriginalKey(f) : f \in UrlFields}
        \cup {p \o x : p \in Prefixes, x \in MetaSuffixes}

UHomeA == <<"http", "://", "a.gov", "/">>

ULegacy == <<"http", "://", "a.gov", "/", "home", "/", "pages", "/", "jobs">>

UPageId == <<"http", "://", "a.gov", "/", "354", "/", "jobs">>

UOther == <<"https", "://", "b.gov", "/", "careers">>

UForm == <<"https", "://", "b.gov", "/", "apply.pdf">>

UNoScheme == <<"a.gov", "/", "jobs">>

UBad == <<"http", "://", "[bad", "/">>

UPadded == ULegacy \o <<"ws">>

UUpper == <<"HTTP", "://", "a.gov", "/", "home", "?q">>

UOld == <<"http", "://", "old.gov", "/", "jobs">>

\* A record of the dataset: every key of Keys, absent unless given.
Rec(town, tw, emp, app, empOrig, appOrig) ==
    [k |-> "dict",
     f |-> [key \in Keys |->
              CASE key = "Town" -> town
                [] key = "Town Website" -> tw
                [] key = "Notes" -> Str(<<"call", "ws", "first">>)
                [] key = "Employment Page URL" -> emp
                [] key = "Application Form URL" -> app
                [] key = "Employment Page URL (original)" -> empOrig
                [] key = "Application Form URL (original)" -> appOrig
                [] OTHER -> Absent]]

\* A record that an earlier rediscovery run has already marked.
WithReason(e, prefix) ==
    [e EXCEPT !.f[prefix \o "_url_change_reason"] = Str(<<"rediscovered">>),
              !.f[prefix \o "_url_confidence"] = Num(60)]

List(items) == [k |-> "list", items |-> items]

T1 == Str(<<"T1">>)

T2 == Str(<<"T2">>)

\* The records the pipeline starts from.
PipeRecs ==
    {Rec(T1, tw, emp, app, eo, Absent) :
        tw \in {Absent, Str(ULegacy), Str(<<"n/a">>)},
        emp \in {Absent, Str(ULegacy), Str(UNoScheme)},
        app \in {Absent, Str(UForm)},
        eo \in {Absent, Str(UOld)}}

\* A second entry of the dataset: not an object, or another town whose
\* homepage urlparse rejects, whose URLs need stripping and lower-casing and
\* whose original key holds null.
SecondEntries ==
    {Num(7),
     Rec(T2, Str(UBad), Str(UPadded), Str(UUpper), Absent, Null)}

PipeDatasets ==
    {List(<<r>>) : r \in PipeRecs}
    \cup {List(<<r, e>>) : r \in PipeRecs, e \in SecondEntries}
    \cup {Rec(T1, Absent, Str(ULegacy), Absent, Absent, Absent), List(<<>>)}

Row(town, field, status, final, soft, err, at) ==
    [Town |-> town, Field |-> field, Status |-> status, FinalURL |-> final,
     Soft404 |-> soft, Error |-> err, CheckedAt |-> at]

\* The CSV rows of the pipeline: a redirect, a bot block and a failed fetch
\* of the employment URL, a redirect of the application URL, a row of the
\* second town and a row that is skipped.
PipeRows ==
    {Row(<<"T1">>, <<"Employment Page URL">>, <<"200">>, UPageId, <<>>, <<>>, <<"t1">>),
     Row(<<"T1">>, <<"Employment Page URL">>, <<"403">>, UOther, <<>>, <<>>, <<"t1">>),
     Row(<<"T1">>, <<"Employment Page URL">>, <<>>, <<>>, <<>>, <<"timeout">>, <<>>),
     Row(<<"T1">>, <<"Application Form URL", "ws">>, <<"301">>, UOther, <<"false">>, <<>>, <<"t1">>),
     Row(<<"T2", "ws">>, <<"Employment Page URL">>, <<"301">>, UOther, <<>>, <<>>, <<"t1">>),
     Row(<<"ws">>, <<"Employment Page URL">>, <<"200">>, UOther, <<>>, <<>>, <<"t1">>)}

(***************************************************************************)
(* The runs of the two scripts.                                            *)
(***************************************************************************)
\* len(sys.argv) the script expects.
ExpectedArgc(s) == IF s = "migrate" THEN 3 ELSE 4

\* Mutant: len(sys.argv) < expected is the only usage error.
ArgcAtLeast(s, n) == n >= ExpectedArgc(s)

ArgcOk(s, n) == n = ExpectedArgc(s)

Argcs == {1, 3, 4}

\* main() up to the loop: the usage error returns 2, an input that is not a
\* list raises ValueError (exit status 1), else the loop starts.
Start(s, n, m) ==
    /\ pc \in {"idle", "exited"}
    /\ runs < MaxRuns
    /\ runs' = runs + 1
    /\ script' = s
    /\ argc' = n
    /\ writes' = 0
    /\ changed' = 0
    /\ updates' = 0
    /\ i' = 0
    /\ replay' = FALSE
    /\ csv' = <<>>
    /\ IF ~ArgcOk(s, n)
       THEN pc' = "exited" /\ exitCode' = 2 /\ data' = <<>> /\ nrows' = 0
       ELSE IF disk.k # "list"
       THEN pc' = "exited" /\ exitCode' = 1 /\ data' = <<>> /\ nrows' = 0
       ELSE pc' = "loop" /\ exitCode' = 0 - 1 /\ data' = disk.items /\ nrows' = m
    /\ UNCHANGED <<disk, redVars>>

MigrateStart == \E n \in Argcs : Start("migrate", n, 0)

\* The CSV given to the run has m rows.
ApplyStart == \E n \in Argcs, m \in 0..MaxRows : Start("apply", n, m)

\* One iteration of "for rec in data" of migrate_schema.
MigrateRecord ==
    /\ pc = "loop"
    /\ script = "migrate"
    /\ i < Len(data)
    /\ data' = [data EXCEPT ![i + 1] = MigrateRec(@)]
    /\ changed' = changed + MigrateChanged(data[i + 1])
    /\ i' = i + 1
    /\ UNCHANGED <<disk, pc, script, argc, updates, exitCode, writes, runs, nrows, csv, replay, redVars>>

\* out_path.write_text(json.dumps(data)) and return 0.
WriteOutput ==
    /\ disk' = List(data)
    /\ writes' = writes + 1
    /\ exitCode' = 0
    /\ pc' = "exited"
    /\ UNCHANGED <<data, script, argc, i, changed, updates, runs, nrows, csv, replay, redVars>>

MigrateWrite ==
    /\ pc = "loop"
    /\ script = "migrate"
    /\ i = Len(data)
    /\ WriteOutput

\* One iteration of "for row in reader" of apply_url_check_summary; the
\* ValueError of homepage() ends the run with exit status 1.
ApplyStep(row) ==
    LET t == RowTarget(data, row)
        field == Strip(row.Field)
        prefix == field_to_prefix(field)
    IN /\ pc = "loop"
       /\ script = "apply"
       /\ IF t = 0
          THEN /\ i' = i + 1
               /\ UNCHANGED <<data, updates, pc, exitCode>>
          ELSE IF TownWebsiteRaises(Stamp(data[t].f, prefix, row), field[1])
          THEN /\ pc' = "exited"
               /\ exitCode' = 1
               /\ UNCHANGED <<data, updates, i>>
          ELSE /\ data' = [data EXCEPT ![t].f = ApplyRec(@, row)]
               /\ updates' = updates + ApplyUpdates(data[t].f, row)
               /\ i' = i + 1
               /\ UNCHANGED <<pc, exitCode>>
       /\ UNCHANGED <<disk, script, argc, changed, writes, runs, nrows, replay, redVars>>

ApplyRow ==
    /\ i < nrows
    /\ ~replay
    /\ \E row \in PipeRows : ApplyStep(row)
    /\ UNCHANGED csv

\* The reader is exhausted: write the output.
ApplyWrite ==
    /\ pc = "loop"
    /\ script = "apply"
    /\ i = nrows
    /\ WriteOutput

Init ==
    /\ disk \in PipeDatasets
    /\ data = <<>>
    /\ pc = "idle"
    /\ script = "none"
    /\ argc = 0
    /\ i = 0
    /\ changed = 0
    /\ updates = 0
    /\ exitCode = 0 - 1
    /\ writes = 0
    /\ runs = 0
    /\ nrows = 0
    /\ csv = <<>>
    /\ replay = FALSE
    /\ rrec = Null
    /\ rpc = "off"
    /\ anchor = Null
    /\ ridx = 0
    /\ probed = <<>>
    /\ lastResp = Null
    /\ crawled = FALSE
    /\ selected = Null
    /\ outcome = "none"

Next ==
    \/ MigrateStart
    \/ MigrateRecord
    \/ MigrateWrite
    \/ ApplyStart
    \/ ApplyRow
    \/ ApplyWrite

Spec == Init /\ [][Next]_vars

(***************************************************************************)
(* Claims about the runs of the two scripts.                               *)
(***************************************************************************)
OriginalKeys == {OriginalKey(f) : f \in UrlFields}

\* The original keys present in entry n of a dataset keep their values in
\* the dataset "after".
OriginalsKept(before, after) ==
    \A n \in 1..Len(before) :
        before[n].k = "dict" =>
            \A key \in OriginalKeys :
                HasKey(before[n].f, key) =>
                    /\ n <= Len(after)
                    /\ after[n].k = "dict"
                    /\ after[n].f[key] = before[n].f[key]

\* C1: once "Employment Page URL (original)" or "Application Form URL
\* (original)" is present in a record, no step of a later run of
\* migrate_schema or apply_url_check_summary changes or removes it: neither
\* in the records a run holds in memory nor in the dataset a run writes.
C1_OriginalsWriteOnce ==
    [][/\ (disk.k = "list" => disk'.k = "list" /\ OriginalsKept(disk.items, disk'.items))
       /\ (pc = "loop" /\ pc' = "loop" => OriginalsKept(data, data'))]_vars

\* A migrate run, the second run, has written a record whose employment URL
\* an earlier apply run rewrote, and whose frozen original differs from it.
C1_Witness ==
    /\ runs = 2
    /\ script = "migrate"
    /\ writes = 1
    /\ disk.k = "list"
    /\ Len(disk.items) >= 1
    /\ disk.items[1].k = "dict"
    /\ disk.items[1].f["Employment Page URL"] = Str(UPageId)
    /\ disk.items[1].f["employment_url_change_reason"] = Str(<<"civicplus_pageid_canonicalized">>)
    /\ disk.items[1].f["Employment Page URL (original)"] = Str(UOld)

\* C7: a run started with the wrong number of arguments or on JSON that is
\* not a list ends with a non-zero exit status and writes nothing; a run
\* writes its output at most once, and only when every record (every CSV row)
\* has been processed, as the last thing it does.
C7_MalformedInputWritesNothing ==
    /\ writes <= 1
    /\ (writes = 1 =>
            /\ pc = "exited"
            /\ exitCode = 0
            /\ disk = List(data)
            /\ (script = "migrate" => i = Len(data))
            /\ (script = "apply" => i = nrows))
    /\ (pc = "exited" /\ exitCode # 0 => writes = 0)
    /\ ((script = "migrate" /\ argc # 3) \/ (script = "apply" /\ argc # 4)
            \/ (script # "none" /\ disk.k # "list")
        => pc = "exited" /\ exitCode \in {1, 2} /\ writes = 0)

\* An apply run with the right arguments on JSON that is an object.
C7_Witness ==
    /\ script = "apply"
    /\ argc = 4
    /\ disk.k = "dict"
    /\ pc = "exited"
    /\ exitCode = 1
    /\ writes = 0

\* The output of migrate_schema against its input.
Additive(before, after) ==
    /\ Len(after) = Len(before)
    /\ \A n \in 1..Len(before) :
          IF before[n].k # "dict" THEN after[n] = before[n]
          ELSE /\ after[n].k = "dict"
               /\ \A key \in Keys :
                     /\ HasKey(before[n].f, key) => HasKey(after[n].f, key)
                     /\ (HasKey(before[n].f, key) /\ key # "Town Website"
                            => after[n].f[key] = before[n].f[key])
                     /\ (~HasKey(before[n].f, key) /\ HasKey(after[n].f, key)
                            => key \in {"Town Website"} \cup OriginalKeys)

\* C8: the list migrate_schema writes has the entries of its input in the
\* same order; no key is removed, only "Town Website" may change its value,
\* only "Town Website" and the two original keys may be added, and entries
\* that are not objects are unchanged.
C8_MigrateAdditive ==
    [][script = "migrate" /\ writes' = writes + 1 /\ disk.k = "list"
          => Additive(disk.items, disk'.items)]_vars

\* The first run, of migrate_schema, wrote a two-entry list: the record got
\* its homepage and both originals, the number stayed.
C8_Witness ==
    /\ runs = 1
    /\ script = "migrate"
    /\ writes = 1
    /\ disk.k = "list"
    /\ Len(disk.items) = 2
    /\ disk.items[2] = Num(7)
    /\ disk.items[1].k = "dict"
    /\ disk.items[1].f["Town Website"] = Str(UHomeA)
    /\ disk.items[1].f["Employment Page URL (original)"] = Str(ULegacy)
    /\ disk.items[1].f["Application Form URL (original)"] = Str(UForm)
    /\ disk.items[1].f["Notes"] = Str(<<"call", "ws", "first">>)

\* scheme://host/ : a scheme, "://", one host token, a single "/".
IsBareHomepage(v) ==
    /\ IsStr(v)
    /\ Len(v.s) = 4
    /\ v.s[1] \in {"http", "https"}
    /\ v.s[2] = "://"
    /\ v.s[3] \notin {"/", "://", "ws", "[bad"} \cup PathEnd
    /\ v.s[4] = "/"

\* The records an apply run has processed a row for carry its stamps.
Stamped(rec) == \E p \in Prefixes : HasKey(rec, p \o "_url_status_code")

\* C6: after migrate_schema has processed a record, and after
\* apply_url_check_summary has processed a CSV row for a record, the
\* record's "Town Website" is a bare homepage scheme://host/.
C6_TownWebsiteIsHomepage ==
    /\ (script = "migrate" /\ pc = "loop" =>
            \A n \in 1..i : data[n].k = "dict" => IsBareHomepage(data[n].f["Town Website"]))
    /\ (script = "apply" /\ pc = "loop" =>
            \A n \in 1..Len(data) :
                data[n].k = "dict" /\ Stamped(data[n].f)
                    => IsBareHomepage(data[n].f["Town Website"]))

(***************************************************************************)
(* One apply run over a one-row CSV: the row is kept in csv, the input of  *)
(* the run stays in disk until the output is written.                      *)
(***************************************************************************)
RowRecs ==
    {IF marked THEN WithReason(Rec(T1, tw, emp, app, Absent, Absent), "employment")
               ELSE Rec(T1, tw, emp, app, Absent, Absent) :
        tw \in {Absent, Str(ULegacy), Str(<<"n/a">>), Str(UBad)},
        emp \in {Absent, Str(ULegacy), Str(UPageId), Str(UNoScheme), Str(UPadded)},
        app \in {Null, Str(UForm)},
        marked \in BOOLEAN}

RowStatuses ==
    {<<>>, <<"200">>, <<"ws", "301", "ws">>, <<"399", ".9">>, <<"400">>, <<"401">>,
     <<"403">>, <<"-1">>, <<"abc">>}

RowFinals == {<<>>, <<"ws">>, UPageId, ULegacy \o <<"ws">>}

RowSoft404s == {<<>>, <<"true">>, <<"TRUE", "ws">>, <<"false">>}

RichRows ==
    {Row(town, field, status, final, soft,
         IF status = <<>> THEN <<"timeout">> ELSE <<>>,
         IF status = <<>> THEN <<>> ELSE <<"t1">>) :
        town \in {<<"T1">>, <<"ws">>},
        field \in {<<"Employment Page URL">>, <<"Application Form URL", "ws">>, <<"Town Website">>},
        status \in RowStatuses,
        final \in RowFinals,
        soft \in RowSoft404s}

\* One iteration of the row loop, the row read being appended to csv.
RecordRow(rows) ==
    /\ i < nrows
    /\ ~replay
    /\ \E row \in rows :
          /\ ApplyStep(row)
          /\ csv' = Append(csv, row)

RowStart == pc = "idle" /\ Start("apply", 4, 1)

RowApply == RecordRow(RichRows)

InitRow ==
    /\ disk \in {List(<<r>>) : r \in RowRecs}
    /\ data = <<>>
    /\ pc = "idle"
    /\ script = "none"
    /\ argc = 0
    /\ i = 0
    /\ changed = 0
    /\ updates = 0
    /\ exitCode = 0 - 1
    /\ writes = 0
    /\ runs = 0
    /\ nrows = 0
    /\ csv = <<>>
    /\ replay = FALSE
    /\ rrec = Null
    /\ rpc = "off"
    /\ anchor = Null
    /\ ridx = 0
    /\ probed = <<>>
    /\ lastResp = Null
    /\ crawled = FALSE
    /\ selected = Null
    /\ outcome = "none"

NextRow ==
    \/ RowStart
    \/ RowApply
    \/ ApplyWrite

SpecRow == InitRow /\ [][NextRow]_vars

\* The row of the run has been processed and the output is not yet written.
RowDone == script = "apply" /\ pc = "loop" /\ i = 1 /\ Len(csv) = 1

\* The canonical URL field the row names, "" when it names none.
RowKey(row) ==
    IF field_to_prefix(Strip(row.Field)) = <<>> THEN "" ELSE Strip(row.Field)[1]

\* C2: a row changes a canonical URL field only if its status parses to an
\* integer below 400, its Final URL is not blank and its Soft404 is not
\* "true"; the field changed is the one the row names.  So a row with status
\* 401 or 403, a soft-404 row, a row with status >= 400 and a row without a
\* status change no canonical URL.
C2_RewriteGuard ==
    RowDone =>
        \A key \in UrlFields :
            data[1].f[key] # disk.items[1].f[key] =>
                /\ key = RowKey(csv[1])
                /\ ParseStatus(Strip(csv[1].Status)) # Null
                /\ ParseStatus(Strip(csv[1].Status)).n < 400
                /\ Strip(csv[1].FinalURL) # <<>>
                /\ ~ParseSoft404(csv[1].Soft404)
                /\ data[1].f[key] = Str(Strip(csv[1].FinalURL))

\* A row with status 403 and a Final URL that differs from the employment
\* URL has been processed.
C2_Witness ==
    /\ RowDone
    /\ data[1].f["employment_url_status_code"] = Num(403)
    /\ data[1].f["employment_url_final"] = Str(UPageId)
    /\ data[1].f["Employment Page URL"] = Str(ULegacy)

ReasonKey(field) == field_to_prefix(<<field>>)[1] \o "_url_change_reason"

ConfidenceKey(field) == field_to_prefix(<<field>>)[1] \o "_url_confidence"

\* C3: for each of the two fields, the row sets the change reason and the
\* confidence of the field exactly when it assigns its Final URL to the
\* field; the reason is then "redirect_canonicalized" or
\* "civicplus_pageid_canonicalized" and the confidence 95; a row that does
\* not rewrite the field leaves its reason and confidence as they were.
C3_ReasonWithRewrite ==
    RowDone =>
        \A key \in UrlFields :
            LET before == disk.items[1].f
                after == data[1].f
            IN IF after[key] # before[key]
               THEN /\ after[key] = Str(Strip(csv[1].FinalURL))
                    /\ after[ReasonKey(key)] \in {Str(<<"redirect_canonicalized">>),
                                                   Str(<<"civicplus_pageid_canonicalized">>)}
                    /\ after[ConfidenceKey(key)] = Num(95)
               ELSE /\ after[ReasonKey(key)] = before[ReasonKey(key)]
                    /\ after[ConfidenceKey(key)] = before[ConfidenceKey(key)]

\* A row rewrote the employment URL of a record an earlier run had marked
\* "rediscovered" with confidence 60.
C3_Witness ==
    /\ RowDone
    /\ disk.items[1].f["employment_url_change_reason"] = Str(<<"rediscovered">>)
    /\ disk.items[1].f["employment_url_confidence"] = Num(60)
    /\ data[1].f["Employment Page URL"] = Str(UPageId)
    /\ data[1].f["employment_url_change_reason"] = Str(<<"civicplus_pageid_canonicalized">>)
    /\ data[1].f["employment_url_confidence"] = Num(95)

\* C9: the row adds 1 to updates if it changed a canonical URL field and 0
\* otherwise.
C9_UpdatesCountsRows ==
    RowDone =>
        updates = IF \E key \in UrlFields : data[1].f[key] # disk.items[1].f[key]
                  THEN 1 ELSE 0

(***************************************************************************)
(* apply_url_check_summary run twice with the same CSV, the second run on  *)
(* the output of the first.                                                *)
(***************************************************************************)
TwiceRecs ==
    {Rec(T1, tw, emp, app, Absent, Absent) :
        tw \in {Absent, Str(ULegacy), Str(<<"n/a">>)},
        emp \in {Str(ULegacy), Str(UPageId), Str(UNoScheme)},
        app \in {Absent, Str(UForm)}}

TwiceRows ==
    {Row(<<"T1">>, <<field>>, st[1], st[2], soft, <<>>, <<"t1">>) :
        field \in UrlFields,
        st \in {<<<<"200">>, UPageId>>, <<<<"200">>, ULegacy>>,
                <<<<"301">>, UOther>>, <<<<"404">>, UOther>>},
        soft \in {<<>>, <<"true">>}}

TwiceStart == pc = "idle" /\ \E m \in 0..MaxRows : Start("apply", 4, m)

TwiceRow == RecordRow(TwiceRows)

\* The second run: same CSV, the input is the output of the first run.
TwiceAgain ==
    /\ pc = "exited"
    /\ script = "apply"
    /\ exitCode = 0
    /\ ~replay
    /\ replay' = TRUE
    /\ runs' = runs + 1
    /\ data' = disk.items
    /\ i' = 0
    /\ updates' = 0
    /\ writes' = 0
    /\ exitCode' = 0 - 1
    /\ pc' = "loop"
    /\ UNCHANGED <<disk, script, argc, changed, nrows, csv, redVars>>

\* One iteration of the row loop of the second run.
TwiceReplayRow ==
    /\ replay
    /\ i < nrows
    /\ ApplyStep(csv[i + 1])
    /\ UNCHANGED csv

InitTwice ==
    /\ disk \in {List(<<r>>) : r \in TwiceRecs}
    /\ data = <<>>
    /\ pc = "idle"
    /\ script = "none"
    /\ argc = 0
    /\ i = 0
    /\ changed = 0
    /\ updates = 0
    /\ exitCode = 0 - 1
    /\ writes = 0
    /\ runs = 0
    /\ nrows = 0
    /\ csv = <<>>
    /\ replay = FALSE
    /\ rrec = Null
    /\ rpc = "off"
    /\ anchor = Null
    /\ ridx = 0
    /\ probed = <<>>
    /\ lastResp = Null
    /\ crawled = FALSE
    /\ selected = Null
    /\ outcome = "none"

NextTwice ==
    \/ TwiceStart
    \/ TwiceRow
    \/ ApplyWrite
    \/ TwiceAgain
    \/ TwiceReplayRow

SpecTwice == InitTwice /\ [][NextTwice]_vars

UrlDataKeys ==
    UrlFields \cup {"Town Website"}
    \cup {ReasonKey(f) : f \in UrlFields} \cup {ConfidenceKey(f) : f \in UrlFields}

\* The second run has processed every row; disk still holds its input, the
\* output of the first run.
SecondRunDone == replay /\ pc = "loop" /\ i = nrows

\* C10: after the second run with the same CSV every record's canonical
\* URLs, "Town Website", change reasons and confidences equal their values
\* after the first run.
C10_ApplyIdempotent ==
    SecondRunDone =>
        \A n \in 1..Len(data) :
            \A key \in UrlDataKeys : data[n].f[key] = disk.items[n].f[key]

\* The part of C10 about the canonical URLs, reasons and confidences.
C10_UrlsIdempotent ==
    SecondRunDone =>
        \A n \in 1..Len(data) :
            \A key \in UrlDataKeys \ {"Town Website"} : data[n].f[key] = disk.items[n].f[key]

\* The part of C10 about "Town Website", for records whose "Town Website"
\* was a string after the first run.
C10_TownWebsiteIdempotent ==
    SecondRunDone =>
        \A n \in 1..Len(data) :
            IsStr(disk.items[n].f["Town Website"])
                => data[n].f["Town Website"] = disk.items[n].f["Town Website"]

(***************************************************************************)
(* rediscover_employment_links.py: the configuration is the source's, the  *)
(* engine (absent from the source at hand) follows sections 4.1 and 7 of   *)
(* the specification.                                                      *)
(***************************************************************************)
\* Mutant: the bot-block status 403 counts as broken too.
REDISCOVER_IF_STATUS_IN_With403 == {Num(404), Num(410), Null, Num(0 - 1), Num(403)}

\* {404, 410, None, -1}
REDISCOVER_IF_STATUS_IN == {Num(404), Num(410), Null, Num(0 - 1)}

REDISCOVER_IF_SOFT404_TRUE == TRUE

COMMON_PATHS ==
    << <<"/", "employment">>,
       <<"/", "employment-opportunities">>,
       <<"/", "jobs">>,
       <<"/", "job-opportunities">>,
       <<"/", "careers">>,
       <<"/", "career-opportunities">>,
       <<"/", "human-resources">>,
       <<"/", "departments", "/", "human-resources">>,
       <<"/", "government", "/", "departments", "/", "human-resources">> >>

\* Input: the employment URL is considered broken.
Broken(rec) ==
    \/ Get(rec, "employment_url_status_code") \in REDISCOVER_IF_STATUS_IN
    \/ (REDISCOVER_IF_SOFT404_TRUE /\ Get(rec, "employment_url_soft404") = Bool(TRUE))

\* Step 1, anchor resolution: the stored homepage, else the homepage of the
\* employment or of the application URL.
Anchor(rec) ==
    Or(homepage_from_url(Get(rec, "Town Website")),
       Or(homepage_from_url(Get(rec, "Employment Page URL")),
          homepage_from_url(Get(rec, "Application Form URL"))))

\* homepage + path
JoinPath(home, path) == SubSeq(home, 1, Len(home) - 1) \o path

\* The responses of the HTTP fetcher: {statusCode, soft-404, error}.
Responses ==
    {[status |-> 200, soft404 |-> FALSE, error |-> FALSE],
     [status |-> 200, soft404 |-> TRUE, error |-> FALSE],
     [status |-> 301, soft404 |-> FALSE, error |-> FALSE],
     [status |-> 403, soft404 |-> FALSE, error |-> FALSE],
     [status |-> 404, soft404 |-> FALSE, error |-> FALSE],
     [status |-> 0 - 1, soft404 |-> FALSE, error |-> TRUE]}

\* Mutant: a reachable response is accepted even when flagged soft-404.
ProbeAcceptsSoft404(resp) == ~resp.error /\ resp.status < 400

\* Step 2: reachable (status < 400) and not flagged soft-404; a fetch that
\* errors is not reachable.
ProbeAccepts(resp) == ~resp.error /\ resp.status < 400 /\ ~resp.soft404

\* The employment URL is rewritten, with reason and confidence.
Rediscovered(rec, url, confidence) ==
    [rec EXCEPT !["Employment Page URL"] = Str(url),
                !["employment_url_change_reason"] = Str(<<"rediscovered">>),
                !["employment_url_confidence"] = Num(confidence)]

\* The record is looked at: a healthy record is left alone, a broken one
\* without an anchor cannot be resolved.
RedCheck ==
    /\ rpc = "start"
    /\ IF ~Broken(rrec)
       THEN rpc' = "done" /\ outcome' = "skipped" /\ ridx' = ridx /\ anchor' = anchor
       ELSE IF ~Truthy(Anchor(rrec))
       THEN rpc' = "done" /\ outcome' = "not_found" /\ ridx' = ridx /\ anchor' = anchor
       ELSE rpc' = "probe" /\ outcome' = outcome /\ ridx' = 1 /\ anchor' = Anchor(rrec)
    /\ UNCHANGED <<rrec, probed, lastResp, crawled, selected, pipeVars>>

\* Step 2, fast-path probing of COMMON_PATHS[ridx]: first match wins.
RedProbe ==
    /\ rpc = "probe"
    /\ \E resp \in Responses :
          LET url == JoinPath(anchor.s, COMMON_PATHS[ridx])
          IN /\ probed' = Append(probed, url)
             /\ lastResp' = resp
             /\ IF ProbeAccepts(resp)
                THEN /\ selected' = Str(url)
                     /\ rrec' = Rediscovered(rrec, url, 90)
                     /\ outcome' = "changed"
                     /\ rpc' = "app"
                     /\ ridx' = ridx
                ELSE /\ rpc' = IF ridx < Len(COMMON_PATHS) THEN "probe" ELSE "crawl"
                     /\ ridx' = IF ridx < Len(COMMON_PATHS) THEN ridx + 1 ELSE ridx
                     /\ UNCHANGED <<selected, rrec, outcome>>
    /\ UNCHANGED <<anchor, crawled, pipeVars>>

\* Step 3, homepage crawl fallback: the best link above the threshold is
\* selected, else the record is left untouched.
RedCrawl ==
    /\ rpc = "crawl"
    /\ crawled' = TRUE
    /\ \E result \in {"best", "none", "ambiguous"} :
          IF result = "best"
          THEN /\ selected' = Str(UOther)
               /\ rrec' = Rediscovered(rrec, UOther, 70)
               /\ outcome' = "changed"
               /\ rpc' = "app"
          ELSE /\ outcome' = IF result = "none" THEN "not_found" ELSE "needs_review"
               /\ rpc' = "done"
               /\ UNCHANGED <<selected, rrec>>
    /\ UNCHANGED <<anchor, ridx, probed, lastResp, pipeVars>>

\* Step 5, application-form discovery: a document link found on the
\* employment page replaces an application URL that is broken or absent.
RedApplication ==
    /\ rpc = "app"
    /\ rpc' = "done"
    /\ \E found \in BOOLEAN :
          IF /\ found
             /\ \/ ~IsStr(Get(rrec, "Application Form URL"))
                \/ Get(rrec, "application_url_status_code") \in REDISCOVER_IF_STATUS_IN
          THEN rrec' = [rrec EXCEPT !["Application Form URL"] = Str(UForm),
                                    !["application_url_change_reason"] = Str(<<"rediscovered">>),
                                    !["application_url_confidence"] = Num(60)]
          ELSE rrec' = rrec
    /\ UNCHANGED <<anchor, ridx, probed, lastResp, crawled, selected, outcome, pipeVars>>

\* The records given to the engine: an earlier apply run stamped them.
RedRecs ==
    {[Rec(T1, tw, emp, Absent, Absent, Absent).f
        EXCEPT !["employment_url_status_code"] = st,
               !["employment_url_soft404"] = soft] :
        tw \in {Absent, Str(UHomeA), Str(<<"n/a">>)},
        emp \in {Str(ULegacy), Str(UNoScheme)},
        st \in {Absent, Null, Num(0 - 1), Num(200), Num(301), Num(401), Num(403),
                Num(404), Num(410), Num(500)},
        soft \in {Absent, Bool(FALSE), Bool(TRUE)}}

InitRediscover ==
    /\ disk = List(<<>>)
    /\ data = <<>>
    /\ pc = "idle"
    /\ script = "none"
    /\ argc = 0
    /\ i = 0
    /\ changed = 0
    /\ updates = 0
    /\ exitCode = 0 - 1
    /\ writes = 0
    /\ runs = 0
    /\ nrows = 0
    /\ csv = <<>>
    /\ replay = FALSE
    /\ rrec \in RedRecs
    /\ rpc = "start"
    /\ anchor = Null
    /\ ridx = 0
    /\ probed = <<>>
    /\ lastResp = Null
    /\ crawled = FALSE
    /\ selected = Null
    /\ outcome = "none"

NextRediscover ==
    \/ RedCheck
    \/ RedProbe
    \/ RedCrawl
    \/ RedApplication

SpecRediscover == InitRediscover /\ [][NextRediscover]_vars

\* The employment URL is healthy: its status code is none of 404, 410,
\* absent, -1 and its soft-404 flag is not true.
Healthy(rec) ==
    /\ rec["employment_url_status_code"] \notin {Absent, Null, Num(404), Num(410), Num(0 - 1)}
    /\ rec["employment_url_soft404"] # Bool(TRUE)

Reachable(resp) == ~resp.error /\ resp.status < 400 /\ ~resp.soft404

\* C5: the common paths are probed in list order from the homepage, and a
\* further path is probed, or the homepage crawled, only after a probe that
\* was not reachable or was soft-404; the first probe that is reachable and
\* not soft-404 is therefore the last one: it is selected and becomes the
\* employment URL, and the homepage is not crawled.
C5_FastPathFirstMatch ==
    /\ Len(probed) <= Len(COMMON_PATHS)
    /\ \A n \in 1..Len(probed) : probed[n] = JoinPath(anchor.s, COMMON_PATHS[n])
    /\ (Len(probed) > 0 /\ Reachable(lastResp) =>
            /\ selected = Str(probed[Len(probed)])
            /\ rrec["Employment Page URL"] = selected
            /\ rrec["employment_url_change_reason"] = Str(<<"rediscovered">>)
            /\ outcome = "changed"
            /\ Len(selected.s) > Len(anchor.s)
            /\ ~crawled
            /\ rpc \in {"app", "done"})
    /\ (Len(probed) > 0 /\ ~Reachable(lastResp) /\ ~crawled =>
            /\ selected = Null
            /\ ~HasKey(rrec, "employment_url_change_reason")
            /\ rpc \in {"probe", "crawl"})
    /\ (rpc = "probe" => ridx = Len(probed) + 1)
    /\ (rpc = "crawl" \/ crawled => Len(probed) = Len(COMMON_PATHS) /\ ~Reachable(lastResp))

\* After two failed probes the third common path, /jobs, answered 200; it
\* is selected, and the engine is done with the record without a crawl.
C5_Witness ==
    /\ rpc = "done"
    /\ Len(probed) = 3
    /\ lastResp = [status |-> 200, soft404 |-> FALSE, error |-> FALSE]
    /\ selected = Str(<<"http", "://", "a.gov", "/", "jobs">>)
    /\ rrec["Employment Page URL"] = selected
    /\ ~crawled

====
